---- MODULE Spec2Model ----
(***************************************************************************)
(* A model of src/src/main.c: the command loop sh_loop, the line reader    *)
(* sh_read_line, the tokenizer sh_split_line, the builtins and the process *)
(* launcher sh_launch.                                                     *)
(*                                                                         *)
(* Characters are one-character strings; a line and a token are sequences  *)
(* of characters.  An automatic variable that was never assigned holds     *)
(* Uninit; reading it yields any value of its type.                        *)
(***************************************************************************)
EXTENDS Integers, Sequences, FiniteSets, TLC

VARIABLES
    pc,        \* where the interpreter process is in main and sh_loop
    stdin,     \* the unread characters of standard input
    line,      \* sh_loop's line
    args,      \* sh_loop's args
    status,    \* sh_loop's status
    c,         \* the last result of getchar in sh_read_line ("unset" before)
    stderr,    \* the messages written to the error stream, by any process
    exitCode,  \* the interpreter's process exit code
    invoked,   \* the builtin or launcher the current iteration has called
    lpc,       \* where the interpreter process is in sh_launch
    largs,     \* sh_launch's args
    pid,       \* sh_launch's pid, in the parent
    wpid,      \* sh_launch's wpid
    lstatus,   \* sh_launch's status
    lret,      \* the value sh_launch returned to the interpreter
    child,     \* the state of the forked process
    cstopped,  \* the child is suspended by a stop signal
    cpending,  \* the child has a stop that no wait has reported yet
    cerrno,    \* errno in the child after execvp
    cexit,     \* the exit status of the child
    sigchldIgnored, \* the interpreter was started with SIGCHLD ignored
    fn,        \* the function called on its own: sh_cd, sh_read_line, sh_split_line
    fpc,       \* where the process is in that function
    farg,      \* the argument as it was at the call (for sh_read_line, the input)
    frest,     \* strtok's saved position: the text not scanned yet
    fbuf,      \* the cells written so far of buffer (sh_read_line) or tokens
    fsize,     \* buffer_size
    fpos,      \* position
    fstore,    \* the index of the last store into the array, -1 before any
    ftoken,    \* sh_split_line's token
    fret,      \* the value the function returned
    cwd,       \* the working directory of the interpreter process
    cwd0       \* the working directory when the function was called

vars == <<pc, stdin, line, args, status, c, stderr, exitCode, invoked,
          lpc, largs, pid, wpid, lstatus, lret, child, cstopped, cpending,
          cerrno, cexit, sigchldIgnored,
          fn, fpc, farg, frest, fbuf, fsize, fpos, fstore, ftoken, fret,
          cwd, cwd0>>

loopVars == <<pc, stdin, line, args, status, c, exitCode, invoked>>

launchVars == <<lpc, largs, pid, wpid, lstatus, lret, child, cstopped, cpending,
                cerrno, cexit, sigchldIgnored>>

callVars == <<fn, fpc, farg, frest, fbuf, fsize, fpos, fstore, ftoken, fret,
              cwd, cwd0>>

---------------------------------------------------------------------------
(* Bounds of the model. *)

\* lines on standard input
MaxLines == 2

---------------------------------------------------------------------------
(* Values. *)

\* an automatic variable that was declared and never assigned
Uninit == [init |-> FALSE]

Val(v) == [init |-> TRUE, val |-> v]

\* the bell character '\a'
BEL == "\\a"

\* the end-of-file result of getchar
EOF == "EOF"

\* the NULL pointer that ends a token array
NULL == <<"NULL">>

EXIT_SUCCESS == 0

EXIT_FAILURE == 1

\* fprintf(stderr, "sh: allocation error\n")
ALLOCATION_ERROR ==
    <<"s", "h", ":", " ", "a", "l", "l", "o", "c", "a", "t", "i", "o", "n",
      " ", "e", "r", "r", "o", "r", "\n">>

\* fprintf(stderr, "sh: reallocation error\n")
REALLOCATION_ERROR ==
    <<"s", "h", ":", " ", "r", "e", "a", "l", "l", "o", "c", "a", "t", "i",
      "o", "n", " ", "e", "r", "r", "o", "r", "\n">>

\* the texts strerror gives for the errno values of the model
ENOENT_TEXT ==
    <<"N", "o", " ", "s", "u", "c", "h", " ", "f", "i", "l", "e", " ", "o",
      "r", " ", "d", "i", "r", "e", "c", "t", "o", "r", "y">>

EACCES_TEXT ==
    <<"P", "e", "r", "m", "i", "s", "s", "i", "o", "n", " ", "d", "e", "n",
      "i", "e", "d">>

EAGAIN_TEXT ==
    <<"R", "e", "s", "o", "u", "r", "c", "e", " ", "t", "e", "m", "p", "o",
      "r", "a", "r", "i", "l", "y", " ", "u", "n", "a", "v", "a", "i", "l",
      "a", "b", "l", "e">>

strerror(e) ==
    CASE e = "ENOENT" -> ENOENT_TEXT
      [] e = "EACCES" -> EACCES_TEXT
      [] e = "EAGAIN" -> EAGAIN_TEXT

\* perror("sh"): the prefix, a colon and a space, the text for errno, a newline
perror(e) == <<"s", "h">> \o <<":", " ">> \o strerror(e) \o <<"\n">>

Str2(a, b) == <<a, b>>

Str4(a, b, cc, d) == <<a, b, cc, d>>

\* builtin_str: the names of the builtin commands, in table order
builtin_str == << Str2("c", "d"), Str4("h", "e", "l", "p"), Str4("e", "x", "i", "t") >>

\* builtin_func: the function each builtin name is paired with
builtin_func == << "sh_cd", "sh_help", "sh_exit" >>

sh_num_builtins == Len(builtin_str)

\* SH_TOK_DELIMITER " \t\r\n\a"
SH_TOK_DELIMITER == {" ", "\t", "\r", "\n", BEL}

SH_TOK_BUFFER_SIZE == 64

SH_READ_LINE_BUFFER_SIZE == 1024

---------------------------------------------------------------------------
(* sh_exit: returns 0 whatever its arguments. *)
sh_exit(a) == 0

---------------------------------------------------------------------------
(* strtok and sh_split_line. *)

\* a scan that skips no leading delimiter, as strsep does
SkipDelims_None(s) == s

RECURSIVE SkipDelims(_)
\* strtok's first phase: the scan over leading delimiter characters
SkipDelims(s) ==
    IF s # <<>> /\ Head(s) \in SH_TOK_DELIMITER THEN SkipDelims(Tail(s)) ELSE s

RECURSIVE TokenLen(_)
\* strtok's second phase: the length of the run of non-delimiter characters
TokenLen(s) ==
    IF s = <<>> \/ Head(s) \in SH_TOK_DELIMITER THEN 0 ELSE 1 + TokenLen(Tail(s))

\* a strtok whose token runs one character too far, over the delimiter
strtok_KeepsDelimiter(s) ==
    LET t == SkipDelims(s)
        n == TokenLen(t)
        m == IF n < Len(t) THEN n + 1 ELSE n
    IN  IF t = <<>>
        THEN [token |-> NULL, rest |-> <<>>]
        ELSE [token |-> SubSeq(t, 1, m),
              rest  |-> IF n < Len(t) THEN SubSeq(t, n + 2, Len(t)) ELSE <<>>]

\* one strtok call on the unscanned text s: the token (NULL when only
\* delimiters are left) and the text left for the next call; the delimiter
\* that ends the token is overwritten and skipped
strtok(s) ==
    LET t == SkipDelims(s)
        n == TokenLen(t)
    IN  IF t = <<>>
        THEN [token |-> NULL, rest |-> <<>>]
        ELSE [token |-> SubSeq(t, 1, n),
              rest  |-> IF n < Len(t) THEN SubSeq(t, n + 2, Len(t)) ELSE <<>>]

\* one pass of the body of the while loop of sh_split_line: the token is
\* stored, the capacity grows when position reaches it, and strtok is called
\* again; sl holds tokens, buffer_size and the pending strtok result tk
SplitPass(sl) ==
    LET stored   == Append(sl.tokens, sl.tk.token)
        position == Len(stored)
        grown    == IF position >= sl.buffer_size
                    THEN sl.buffer_size + SH_TOK_BUFFER_SIZE
                    ELSE sl.buffer_size
    IN  [tokens |-> stored, buffer_size |-> grown, tk |-> strtok(sl.tk.rest)]

RECURSIVE SplitPasses(_, _)
\* up to n passes of the while loop, which ends when strtok returned NULL;
\* the passes are composed by halves, n \div 2 passes and then the rest
SplitPasses(sl, n) ==
    IF n = 0 \/ sl.tk.token = NULL THEN sl
    ELSE IF n = 1 THEN SplitPass(sl)
    ELSE SplitPasses(SplitPasses(sl, n \div 2), n - n \div 2)

\* the while loop of sh_split_line, run until strtok returns NULL, and the
\* store of the terminator after it: every pass consumes at least one
\* character of the text, so Len(tk.rest) + 1 passes reach the end
SplitLoop(tokens, buffer_size, tk) ==
    LET end == SplitPasses([tokens |-> tokens, buffer_size |-> buffer_size, tk |-> tk],
                           Len(tk.rest) + 1)
    IN  [tokens |-> Append(end.tokens, NULL), buffer_size |-> end.buffer_size]

\* sh_split_line when no allocation fails: the NULL-terminated token array
sh_split_line(l) == SplitLoop(<<>>, SH_TOK_BUFFER_SIZE, strtok(l)).tokens

---------------------------------------------------------------------------
(* sh_read_line. *)

\* getchar on the unread input: EOF at the end of the stream (and again on
\* every later call)
getchar(in) == IF in = <<>> THEN [c |-> EOF, rest |-> <<>>]
               ELSE [c |-> Head(in), rest |-> Tail(in)]

RECURSIVE ReadLoop(_, _, _, _, _)
\* the while (1) loop of sh_read_line; nalloc counts the allocations made so
\* far and allocation number failAt fails (0: none does)
ReadLoop(in, buffer, buffer_size, nalloc, failAt) ==
    LET g == getchar(in)
    IN  IF g.c = EOF \/ g.c = "\n"
        THEN [outcome |-> "line", buffer |-> buffer, rest |-> g.rest, c |-> g.c,
              buffer_size |-> buffer_size]
        ELSE LET stored   == Append(buffer, g.c)
                 position == Len(stored)
             IN  IF position >= buffer_size
                 THEN IF nalloc + 1 = failAt
                      THEN [outcome |-> "realloc_error", buffer |-> stored,
                            rest |-> g.rest, c |-> g.c, buffer_size |-> buffer_size]
                      ELSE ReadLoop(g.rest, stored,
                                    buffer_size + SH_READ_LINE_BUFFER_SIZE,
                                    nalloc + 1, failAt)
                 ELSE ReadLoop(g.rest, stored, buffer_size, nalloc, failAt)

\* sh_read_line on the unread input; the buffer is the text before the '\0'
sh_read_line(in, failAt) ==
    IF failAt = 1
    THEN [outcome |-> "malloc_error", buffer |-> <<>>, rest |-> in, c |-> EOF,
          buffer_size |-> SH_READ_LINE_BUFFER_SIZE]
    ELSE ReadLoop(in, <<>>, SH_READ_LINE_BUFFER_SIZE, 1, failAt)

---------------------------------------------------------------------------
(* Undefined behaviour. *)

\* the values a read of an int variable can yield
ReadInt(v) == IF v.init THEN {v.val} ELSE {0, 1}

\* what free(p) can do: freeing a pointer that was never assigned may crash
\* the process or go unnoticed
FreeOutcomes(p) == IF p.init THEN {"ok"} ELSE {"ok", "crash"}

---------------------------------------------------------------------------
(* The input streams of the model. *)

SampleLines ==
    { <<>>,
      <<" ">>,
      <<"\t", " ">>,
      Str4("e", "x", "i", "t"),
      <<"e", "x", "i", "t", " ", "1">>,
      <<" ", "c", "d">>,
      Str4("h", "e", "l", "p"),
      Str2("l", "s"),
      <<"l", "s", " ", BEL, "x">> }

RECURSIVE Streams(_)
\* the streams of n lines, each ended by a newline
Streams(n) ==
    IF n = 0 THEN {<<>>}
    ELSE {l \o <<"\n">> \o s : l \in SampleLines, s \in Streams(n - 1)}

\* standard input: up to MaxLines lines; the last one may lack its newline
Inputs ==
    UNION {Streams(n) : n \in 0..MaxLines}
      \cup {s \o l : s \in UNION {Streams(n) : n \in 0..(MaxLines - 1)},
                     l \in SampleLines}

---------------------------------------------------------------------------
(* The launcher's variables when sh_launch is not running. *)

LaunchIdle ==
    /\ lpc = "idle"
    /\ largs = <<NULL>>
    /\ pid = 0
    /\ wpid = 0
    /\ lstatus = Uninit
    /\ lret = Uninit
    /\ child = "none"
    /\ cstopped = FALSE
    /\ cpending = FALSE
    /\ cerrno = "none"
    /\ cexit = Uninit
    /\ sigchldIgnored = FALSE

\* the root directory, where the model starts the interpreter
ROOT == <<"/">>

\* the variables of a function called on its own, when none is
CallIdle ==
    /\ fn = "none"
    /\ fpc = "idle"
    /\ farg = <<>>
    /\ frest = <<>>
    /\ fbuf = <<>>
    /\ fsize = 0
    /\ fpos = 0
    /\ fstore = -1
    /\ ftoken = NULL
    /\ fret = Uninit
    /\ cwd = ROOT
    /\ cwd0 = ROOT

---------------------------------------------------------------------------
(* main and sh_loop. *)

Init ==
    /\ pc = "prompt"
    /\ stdin \in Inputs
    /\ line = Uninit
    /\ args = Uninit
    /\ status = Uninit
    /\ c = "unset"
    /\ stderr = {}
    /\ exitCode = Uninit
    /\ invoked = "none"
    /\ LaunchIdle
    /\ CallIdle

\* printf("> ")
Prompt ==
    /\ pc = "prompt"
    /\ pc' = "read"
    /\ invoked' = "none"
    /\ UNCHANGED <<stdin, line, args, status, c, stderr, exitCode>>
    /\ UNCHANGED launchVars
    /\ UNCHANGED callVars

\* line = sh_read_line(); an allocation failure prints and exits
ReadLine ==
    /\ pc = "read"
    /\ \E failAt \in {0, 1} :
         LET r == sh_read_line(stdin, failAt)
         IN  IF r.outcome # "line"
             THEN /\ stderr' = stderr \cup {IF r.outcome = "malloc_error"
                                             THEN ALLOCATION_ERROR
                                             ELSE REALLOCATION_ERROR}
                  /\ exitCode' = Val(EXIT_FAILURE)
                  /\ pc' = "exited"
                  /\ UNCHANGED <<stdin, line, c>>
             ELSE /\ line' = [init |-> TRUE, val |-> r.buffer, live |-> TRUE]
                  /\ stdin' = r.rest
                  /\ c' = r.c
                  /\ pc' = "free_line"
                  /\ UNCHANGED <<stderr, exitCode>>
    /\ UNCHANGED <<args, status, invoked>>
    /\ UNCHANGED launchVars
    /\ UNCHANGED callVars

\* free(line)
FreeLine ==
    /\ pc = "free_line"
    /\ line' = [line EXCEPT !.live = FALSE]
    /\ pc' = "free_args"
    /\ UNCHANGED <<stdin, args, status, c, stderr, exitCode, invoked>>
    /\ UNCHANGED launchVars
    /\ UNCHANGED callVars

\* free(args)
FreeArgs ==
    /\ pc = "free_args"
    /\ \E o \in FreeOutcomes(args) :
         pc' = IF o = "ok" THEN "test" ELSE "crashed"
    /\ UNCHANGED <<stdin, line, args, status, c, stderr, exitCode, invoked>>
    /\ UNCHANGED launchVars
    /\ UNCHANGED callVars

\* while (status)
TestStatus ==
    /\ pc = "test"
    /\ \E v \in ReadInt(status) :
         pc' = IF v # 0 THEN "prompt" ELSE "loop_returned"
    /\ UNCHANGED <<stdin, line, args, status, c, stderr, exitCode, invoked>>
    /\ UNCHANGED launchVars
    /\ UNCHANGED callVars

\* a main that reports failure after the loop
MainReturn_Failure ==
    /\ pc = "loop_returned"
    /\ pc' = "exited"
    /\ exitCode' = Val(EXIT_FAILURE)
    /\ UNCHANGED <<stdin, line, args, status, c, stderr, invoked>>
    /\ UNCHANGED launchVars
    /\ UNCHANGED callVars

\* main: return EXIT_SUCCESS after sh_loop returned
MainReturn ==
    /\ pc = "loop_returned"
    /\ pc' = "exited"
    /\ exitCode' = Val(EXIT_SUCCESS)
    /\ UNCHANGED <<stdin, line, args, status, c, stderr, invoked>>
    /\ UNCHANGED launchVars
    /\ UNCHANGED callVars

Next ==
    \/ Prompt
    \/ ReadLine
    \/ FreeLine
    \/ FreeArgs
    \/ TestStatus
    \/ MainReturn

Spec == Init /\ [][Next]_vars

---------------------------------------------------------------------------
(* sh_launch: the interpreter (parent) and the process it forks (child).   *)
(* sh_loop never calls sh_launch; it is modelled as a call from a caller   *)
(* that holds a token array, in an environment that may have started the   *)
(* interpreter with SIGCHLD ignored.                                       *)

\* the programs execvp finds on the search path, and the files it finds
\* there that cannot be executed
Executables == { Str2("l", "s") }

NotExecutable == { Str4("d", "a", "t", "a") }

\* execvp(args[0], args): "ok" when the image is replaced, else the errno
execvp(name) ==
    IF name \in Executables THEN "ok"
    ELSE IF name \in NotExecutable THEN "EACCES"
    ELSE "ENOENT"

\* the token arrays sh_launch is called with
LaunchLines ==
    { Str2("l", "s"),
      <<"l", "s", " ", BEL, "x">>,
      Str4("n", "o", "p", "e"),
      <<"d", "a", "t", "a", " ", "1">>,
      <<" ", "c", "d">>,
      Str4("e", "x", "i", "t") }

\* the wait statuses: a normal exit with a code, a death by signal, a stop,
\* and a value that is none of these
ExitedStatus(code) == [kind |-> "exited", code |-> code]

SignaledStatus == [kind |-> "signaled", code |-> 0]

StoppedStatus == [kind |-> "stopped", code |-> 0]

OtherStatus == [kind |-> "other", code |-> 0]

WaitStatuses ==
    {ExitedStatus(0), ExitedStatus(1), SignaledStatus, StoppedStatus, OtherStatus}

WIFEXITED(s) == s.kind = "exited"

WIFSIGNALED(s) == s.kind = "signaled"

\* the values a read of sh_launch's status can yield
ReadStatus(v) == IF v.init THEN {v.val} ELSE WaitStatuses

ChildAlive == child \in {"forked", "exec_failed", "running"}

ChildTerminated == child \in {"exited", "signaled"}

InitLaunch ==
    /\ pc = "call"
    /\ stdin = <<>>
    /\ line = Uninit
    /\ args = Uninit
    /\ status = Uninit
    /\ c = "unset"
    /\ stderr = {}
    /\ exitCode = Uninit
    /\ invoked = "sh_launch"
    /\ lpc = "fork"
    /\ largs \in {sh_split_line(l) : l \in LaunchLines}
    /\ pid = 0
    /\ wpid = 0
    /\ lstatus = Uninit
    /\ lret = Uninit
    /\ child = "none"
    /\ cstopped = FALSE
    /\ cpending = FALSE
    /\ cerrno = "none"
    /\ cexit = Uninit
    /\ sigchldIgnored \in BOOLEAN
    /\ CallIdle

\* pid = fork() in the parent, when a child is created
ForkOk ==
    /\ lpc = "fork"
    /\ pid' = 1
    /\ child' = "forked"
    /\ lpc' = "wait"
    /\ UNCHANGED <<largs, wpid, lstatus, lret, cstopped, cpending, cerrno, cexit,
                   sigchldIgnored, stderr>>
    /\ UNCHANGED loopVars
    /\ UNCHANGED callVars

\* pid = fork() failing: pid < 0, perror("sh")
ForkFail ==
    /\ lpc = "fork"
    /\ pid' = -1
    /\ stderr' = stderr \cup {perror("EAGAIN")}
    /\ lpc' = "return"
    /\ UNCHANGED <<largs, wpid, lstatus, lret, child, cstopped, cpending, cerrno,
                   cexit, sigchldIgnored>>
    /\ UNCHANGED loopVars
    /\ UNCHANGED callVars

\* the child: if (execvp(args[0], args) == -1) perror("sh")
ChildExec ==
    /\ child = "forked"
    /\ ~cstopped
    /\ LET r == execvp(largs[1])
       IN  IF r = "ok"
           THEN /\ child' = "running"
                /\ UNCHANGED <<cerrno, stderr>>
           ELSE /\ child' = "exec_failed"
                /\ cerrno' = r
                /\ stderr' = stderr \cup {perror(r)}
    /\ UNCHANGED <<lpc, largs, pid, wpid, lstatus, lret, cstopped, cpending, cexit,
                   sigchldIgnored>>
    /\ UNCHANGED loopVars
    /\ UNCHANGED callVars

\* a child that leaves the if without exiting: it returns from sh_launch
ChildExit_FallThrough ==
    /\ child = "exec_failed"
    /\ ~cstopped
    /\ child' = "returned"
    /\ UNCHANGED <<lpc, largs, pid, wpid, lstatus, lret, cstopped, cpending, cerrno,
                   cexit, sigchldIgnored, stderr>>
    /\ UNCHANGED loopVars
    /\ UNCHANGED callVars

\* the child: exit(EXIT_FAILURE)
ChildExit ==
    /\ child = "exec_failed"
    /\ ~cstopped
    /\ child' = "exited"
    /\ cexit' = Val(EXIT_FAILURE)
    /\ UNCHANGED <<lpc, largs, pid, wpid, lstatus, lret, cstopped, cpending, cerrno,
                   sigchldIgnored, stderr>>
    /\ UNCHANGED loopVars
    /\ UNCHANGED callVars

\* the program the child became exits with a status of its own
ProgramExit ==
    /\ child = "running"
    /\ ~cstopped
    /\ \E code \in {0, 1} :
         /\ child' = "exited"
         /\ cexit' = Val(code)
    /\ UNCHANGED <<lpc, largs, pid, wpid, lstatus, lret, cstopped, cpending, cerrno,
                   sigchldIgnored, stderr>>
    /\ UNCHANGED loopVars
    /\ UNCHANGED callVars

\* a signal kills the child, running or stopped
ChildKilled ==
    /\ ChildAlive
    /\ child' = "signaled"
    /\ cstopped' = FALSE
    /\ cpending' = FALSE
    /\ UNCHANGED <<lpc, largs, pid, wpid, lstatus, lret, cerrno, cexit,
                   sigchldIgnored, stderr>>
    /\ UNCHANGED loopVars
    /\ UNCHANGED callVars

\* a stop signal suspends the child
ChildStopped ==
    /\ ChildAlive
    /\ ~cstopped
    /\ cstopped' = TRUE
    /\ cpending' = TRUE
    /\ UNCHANGED <<lpc, largs, pid, wpid, lstatus, lret, child, cerrno, cexit,
                   sigchldIgnored, stderr>>
    /\ UNCHANGED loopVars
    /\ UNCHANGED callVars

\* SIGCONT resumes the child
ChildContinued ==
    /\ ChildAlive
    /\ cstopped
    /\ cstopped' = FALSE
    /\ cpending' = FALSE
    /\ UNCHANGED <<lpc, largs, pid, wpid, lstatus, lret, child, cerrno, cexit,
                   sigchldIgnored, stderr>>
    /\ UNCHANGED loopVars
    /\ UNCHANGED callVars

\* wpid = waitpid(pid, &status, WUNTRACED) reporting the child's end: the
\* status is stored and the child is reaped
WaitTerminated ==
    /\ lpc = "wait"
    /\ ChildTerminated
    /\ ~sigchldIgnored
    /\ wpid' = pid
    /\ lstatus' = Val(IF child = "exited" THEN ExitedStatus(cexit.val)
                      ELSE SignaledStatus)
    /\ lpc' = "wait_test"
    /\ UNCHANGED <<largs, pid, lret, child, cstopped, cpending, cerrno, cexit,
                   sigchldIgnored, stderr>>
    /\ UNCHANGED loopVars
    /\ UNCHANGED callVars

\* waitpid reporting, because of WUNTRACED, that the child has stopped
WaitStopped ==
    /\ lpc = "wait"
    /\ ChildAlive
    /\ cpending
    /\ wpid' = pid
    /\ lstatus' = Val(StoppedStatus)
    /\ cpending' = FALSE
    /\ lpc' = "wait_test"
    /\ UNCHANGED <<largs, pid, lret, child, cstopped, cerrno, cexit,
                   sigchldIgnored, stderr>>
    /\ UNCHANGED loopVars
    /\ UNCHANGED callVars

\* waitpid failing with ECHILD: with SIGCHLD ignored a terminated child leaves
\* nothing to wait for; -1 is returned and status is not written
WaitFails ==
    /\ lpc = "wait"
    /\ ChildTerminated
    /\ sigchldIgnored
    /\ wpid' = -1
    /\ lpc' = "wait_test"
    /\ UNCHANGED <<largs, pid, lstatus, lret, child, cstopped, cpending, cerrno,
                   cexit, sigchldIgnored, stderr>>
    /\ UNCHANGED loopVars
    /\ UNCHANGED callVars

\* a condition that also lets a stopped child end the wait
WaitAgain_StopEnds(s) == ~WIFEXITED(s) /\ ~WIFSIGNALED(s) /\ s.kind # "stopped"

\* the condition of the do-while: wait again
WaitAgain(s) == ~WIFEXITED(s) /\ ~WIFSIGNALED(s)

\* while (!WIFEXITED(status) && !WIFSIGNALED(status))
WaitTest ==
    /\ lpc = "wait_test"
    /\ \E s \in ReadStatus(lstatus) :
         lpc' = IF WaitAgain(s) THEN "wait" ELSE "return"
    /\ UNCHANGED <<largs, pid, wpid, lstatus, lret, child, cstopped, cpending,
                   cerrno, cexit, sigchldIgnored, stderr>>
    /\ UNCHANGED loopVars
    /\ UNCHANGED callVars

\* a launcher that reports a failed fork as "stop"
LaunchResult_ForkFatal(p) == IF p < 0 THEN 0 ELSE 1

\* the value of return 1
LaunchResult(p) == 1

\* return 1
LaunchReturn ==
    /\ lpc = "return"
    /\ lret' = Val(LaunchResult(pid))
    /\ lpc' = "returned"
    /\ UNCHANGED <<largs, pid, wpid, lstatus, child, cstopped, cpending, cerrno,
                   cexit, sigchldIgnored, stderr>>
    /\ UNCHANGED loopVars
    /\ UNCHANGED callVars

NextLaunch ==
    \/ ForkOk
    \/ ForkFail
    \/ ChildExec
    \/ ChildExit
    \/ ProgramExit
    \/ ChildKilled
    \/ ChildStopped
    \/ ChildContinued
    \/ WaitTerminated
    \/ WaitStopped
    \/ WaitFails
    \/ WaitTest
    \/ LaunchReturn

SpecLaunch == InitLaunch /\ [][NextLaunch]_vars

\* the interpreter process always takes its next step; nothing is assumed of
\* the child or of the signals sent to it
FairSpecLaunch ==
    /\ SpecLaunch
    /\ WF_vars(WaitTerminated \/ WaitStopped \/ WaitFails)
    /\ WF_vars(WaitTest)
    /\ WF_vars(LaunchReturn)

---------------------------------------------------------------------------
(* The functions sh_loop never calls, each called on its own: sh_cd,       *)
(* sh_read_line and sh_split_line, a step at a time.                       *)

\* fprintf(stderr, "sh: expected argument to \"cd\"\n")
EXPECTED_ARGUMENT ==
    <<"s", "h", ":", " ", "e", "x", "p", "e", "c", "t", "e", "d", " ", "a",
      "r", "g", "u", "m", "e", "n", "t", " ", "t", "o", " ", "\"", "c", "d",
      "\"", "\n">>

\* the directories of the model's file system, and one that exists and may
\* not be entered
Dirs == { ROOT, <<"/", "a">>, <<"/", "a", "/", "b">> }

Denied == { <<"/", "p">> }

\* the directory above d
Parent(d) ==
    IF d = ROOT THEN ROOT
    ELSE LET i == CHOOSE k \in 1..Len(d) :
                      d[k] = "/" /\ \A j \in (k + 1)..Len(d) : d[j] # "/"
         IN  IF i = 1 THEN ROOT ELSE SubSeq(d, 1, i - 1)

\* the directory a path names for a process whose working directory is wd
Resolve(wd, path) ==
    IF Head(path) = "/" THEN path
    ELSE IF path = <<".", ".">> THEN Parent(wd)
    ELSE IF wd = ROOT THEN ROOT \o path
    ELSE wd \o <<"/">> \o path

\* chdir(path) in a process whose working directory is wd: the working
\* directory afterwards, and errno when it fails
chdir(wd, path) ==
    LET d == Resolve(wd, path)
    IN  IF d \in Dirs THEN [cwd |-> d, errno |-> "none"]
        ELSE IF d \in Denied THEN [cwd |-> wd, errno |-> "EACCES"]
        ELSE [cwd |-> wd, errno |-> "ENOENT"]

\* the command lines whose token arrays sh_cd is called with
CdLines ==
    { Str2("c", "d"),
      <<"c", "d", " ", "/">>,
      <<"c", "d", " ", "/", "a">>,
      <<"c", "d", " ", "b">>,
      <<"c", "d", " ", ".", ".">>,
      <<"c", "d", " ", "/", "x">>,
      <<"c", "d", " ", "/", "p">>,
      <<"c", "d", " ", "/", "a", "/", "b", " ", "/", "x">> }

\* an off-by-one: the directory taken from args[0]
CdTarget_Arg0(a) == a[1]

\* args[1], the directory
CdTarget(a) == a[2]

InitCd ==
    /\ fn = "sh_cd"
    /\ fpc = "cd_test"
    /\ farg \in {sh_split_line(l) : l \in CdLines}
    /\ cwd \in Dirs
    /\ cwd0 = cwd
    /\ stdin = <<>>
    /\ frest = <<>>
    /\ fbuf = <<>>
    /\ fsize = 0
    /\ fpos = 0
    /\ fstore = -1
    /\ ftoken = NULL

\* sh_cd: the if statement, with its message or its chdir
CdBody ==
    /\ fn = "sh_cd"
    /\ fpc = "cd_test"
    /\ IF farg[2] = NULL
       THEN /\ stderr' = stderr \cup {EXPECTED_ARGUMENT}
            /\ UNCHANGED cwd
       ELSE LET r == chdir(cwd, CdTarget(farg))
            IN  /\ cwd' = r.cwd
                /\ stderr' = IF r.errno # "none"
                             THEN stderr \cup {perror(r.errno)}
                             ELSE stderr
    /\ fpc' = "return"
    /\ UNCHANGED <<fn, farg, frest, fbuf, fsize, fpos, fstore, ftoken, fret, cwd0>>
    /\ UNCHANGED loopVars
    /\ UNCHANGED launchVars

\* sh_cd: return 1
CdReturn ==
    /\ fn = "sh_cd"
    /\ fpc = "return"
    /\ fret' = Val(1)
    /\ fpc' = "returned"
    /\ UNCHANGED <<fn, farg, frest, fbuf, fsize, fpos, fstore, ftoken, cwd, cwd0,
                   stderr>>
    /\ UNCHANGED loopVars
    /\ UNCHANGED launchVars

---------------------------------------------------------------------------
(* sh_read_line, a step at a time. *)

\* the '\0' that ends the line
NUL == "\\0"

\* how many times the inputs of the model make a buffer grow
MaxGrowths == 2

\* a text of n characters with no newline and no delimiter in it
LongLine(n) == [i \in 1..n |-> <<"a", "b", "c">>[(i % 3) + 1]]

\* lengths one below, at and one above k times a capacity
Around(cap) == {k * cap + d : k \in 1..MaxGrowths, d \in {-1, 0, 1}}

\* the inputs sh_read_line is called on: short lines, ended by a newline or
\* by the end of the stream, and lines around the multiples of the capacity
ReadInputs ==
    {l \o e : l \in SampleLines, e \in {<<>>, <<"\n">>, <<"\n", "x">>}}
      \cup {LongLine(n) \o <<"\n", "x">> : n \in Around(SH_READ_LINE_BUFFER_SIZE)}
      \cup {LongLine(k * SH_READ_LINE_BUFFER_SIZE) : k \in 1..MaxGrowths}

\* array[i] = v for a C index i; a cell never written holds "?"
Store(array, i, v) ==
    IF i = Len(array) THEN Append(array, v)
    ELSE [k \in 1..(IF i + 1 > Len(array) THEN i + 1 ELSE Len(array)) |->
            IF k = i + 1 THEN v ELSE IF k <= Len(array) THEN array[k] ELSE "?"]

\* a reallocation that hands back fresh memory without the old contents
realloc_NoCopy(array) == [k \in 1..Len(array) |-> "?"]

\* the contents of the block realloc returns: those of the old block
realloc(array) == array

\* c == EOF || c == '\n'
ReadEnds(ch) == ch = EOF \/ ch = "\n"

\* a test that lets position reach one past the capacity
ReadNeedsGrow_OffByOne(position, buffer_size) == position > buffer_size

\* position >= buffer_size, in sh_read_line
ReadNeedsGrow(position, buffer_size) == position >= buffer_size

InitRead ==
    /\ fn = "sh_read_line"
    /\ fpc = "malloc"
    /\ stdin \in ReadInputs
    /\ farg = stdin
    /\ fsize = SH_READ_LINE_BUFFER_SIZE
    /\ fpos = 0
    /\ fbuf = <<>>
    /\ fstore = -1
    /\ frest = <<>>
    /\ ftoken = NULL
    /\ cwd = ROOT
    /\ cwd0 = ROOT

\* a failed allocation that is reported and then handed back to the caller
AllocationFatal_Returns(message) ==
    /\ stderr' = stderr \cup {message}
    /\ fpc' = "returned"
    /\ UNCHANGED <<pc, exitCode>>

\* fprintf(stderr, ...); exit(EXIT_FAILURE) after a failed allocation
AllocationFatal(message) ==
    /\ stderr' = stderr \cup {message}
    /\ exitCode' = Val(EXIT_FAILURE)
    /\ pc' = "exited"
    /\ fpc' = "exited"

\* sh_read_line: buffer = malloc(...), and the exit when it fails
ReadMalloc ==
    /\ fn = "sh_read_line"
    /\ fpc = "malloc"
    /\ \/ /\ fpc' = "getchar"
          /\ UNCHANGED <<pc, stderr, exitCode>>
       \/ AllocationFatal(ALLOCATION_ERROR)
    /\ UNCHANGED <<stdin, line, args, status, c, invoked>>
    /\ UNCHANGED <<fn, farg, frest, fbuf, fsize, fpos, fstore, ftoken, fret, cwd, cwd0>>
    /\ UNCHANGED launchVars

\* sh_read_line: c = getchar() and the store of c, or of '\0' with the return
ReadChar ==
    /\ fn = "sh_read_line"
    /\ fpc = "getchar"
    /\ LET g == getchar(stdin)
       IN  /\ c' = g.c
           /\ stdin' = g.rest
           /\ fstore' = fpos
           /\ IF ReadEnds(g.c)
              THEN /\ fbuf' = Store(fbuf, fpos, NUL)
                   /\ fret' = Val(fbuf')
                   /\ fpc' = "returned"
                   /\ UNCHANGED fpos
              ELSE /\ fbuf' = Store(fbuf, fpos, g.c)
                   /\ fpos' = fpos + 1
                   /\ fpc' = IF ReadNeedsGrow(fpos + 1, fsize)
                             THEN "realloc" ELSE "getchar"
                   /\ UNCHANGED fret
    /\ UNCHANGED <<pc, line, args, status, stderr, exitCode, invoked>>
    /\ UNCHANGED <<fn, farg, frest, fsize, ftoken, cwd, cwd0>>
    /\ UNCHANGED launchVars

\* sh_read_line: buffer_size += SH_READ_LINE_BUFFER_SIZE; buffer = realloc(...)
ReadRealloc ==
    /\ fn = "sh_read_line"
    /\ fpc = "realloc"
    /\ fsize' = fsize + SH_READ_LINE_BUFFER_SIZE
    /\ \/ /\ fbuf' = realloc(fbuf)
          /\ fpc' = "getchar"
          /\ UNCHANGED <<pc, stderr, exitCode>>
       \/ /\ AllocationFatal(REALLOCATION_ERROR)
          /\ UNCHANGED fbuf
    /\ UNCHANGED <<stdin, line, args, status, c, invoked>>
    /\ UNCHANGED <<fn, farg, frest, fpos, fstore, ftoken, fret, cwd, cwd0>>
    /\ UNCHANGED launchVars

---------------------------------------------------------------------------
(* sh_split_line, a step at a time. *)

\* the longest of the lines tokenized in full variety
MaxLineLen == 4

SplitAlphabet == {"a", "b", " ", "\t", BEL}

\* a line of n one-character tokens with single spaces between them
TokenLine(n) ==
    [i \in 1..(2 * n - 1) |->
        IF i % 2 = 1 THEN <<"a", "b">>[(((i + 1) \div 2) % 2) + 1] ELSE " "]

\* the lines sh_split_line is called on: every line over the alphabet up to
\* MaxLineLen, lines with a carriage return and a newline, and lines with a
\* number of tokens around the multiples of the capacity
SplitInputs ==
    UNION {[1..n -> SplitAlphabet] : n \in 0..MaxLineLen}
      \cup { <<"a", "\r", "\n", "b">>, <<"\r", "a", "b", "\n">> }
      \cup {TokenLine(n) : n \in Around(SH_TOK_BUFFER_SIZE)}

\* a test that lets position reach one past the capacity
SplitNeedsGrow_OffByOne(position, buffer_size) == position > buffer_size

\* position >= buffer_size, in sh_split_line
SplitNeedsGrow(position, buffer_size) == position >= buffer_size

InitSplit ==
    /\ fn = "sh_split_line"
    /\ fpc = "malloc"
    /\ farg \in SplitInputs
    /\ frest = farg
    /\ fsize = SH_TOK_BUFFER_SIZE
    /\ fpos = 0
    /\ fbuf = <<>>
    /\ fstore = -1
    /\ ftoken = NULL
    /\ stdin = <<>>
    /\ cwd = ROOT
    /\ cwd0 = ROOT

\* sh_split_line: tokens = malloc(...), and the exit when it fails
SplitMalloc ==
    /\ fn = "sh_split_line"
    /\ fpc = "malloc"
    /\ \/ /\ fpc' = "strtok"
          /\ UNCHANGED <<pc, stderr, exitCode>>
       \/ AllocationFatal(ALLOCATION_ERROR)
    /\ UNCHANGED <<stdin, line, args, status, c, invoked>>
    /\ UNCHANGED <<fn, farg, frest, fbuf, fsize, fpos, fstore, ftoken, fret, cwd, cwd0>>
    /\ UNCHANGED launchVars

\* sh_split_line: token = strtok(line, ...) and token = strtok(NULL, ...)
SplitStrtok ==
    /\ fn = "sh_split_line"
    /\ fpc = "strtok"
    /\ LET tk == strtok(frest)
       IN  /\ ftoken' = tk.token
           /\ frest' = tk.rest
    /\ fpc' = "test"
    /\ UNCHANGED <<stderr>>
    /\ UNCHANGED <<fn, farg, fbuf, fsize, fpos, fstore, fret, cwd, cwd0>>
    /\ UNCHANGED loopVars
    /\ UNCHANGED launchVars

\* sh_split_line: while (token != NULL), the store of the token, and after
\* the loop the store of NULL with the return
SplitTest ==
    /\ fn = "sh_split_line"
    /\ fpc = "test"
    /\ fstore' = fpos
    /\ IF ftoken = NULL
       THEN /\ fbuf' = Store(fbuf, fpos, NULL)
            /\ fret' = Val(fbuf')
            /\ fpc' = "returned"
            /\ UNCHANGED fpos
       ELSE /\ fbuf' = Store(fbuf, fpos, ftoken)
            /\ fpos' = fpos + 1
            /\ fpc' = IF SplitNeedsGrow(fpos + 1, fsize) THEN "realloc" ELSE "strtok"
            /\ UNCHANGED fret
    /\ UNCHANGED <<stderr>>
    /\ UNCHANGED <<fn, farg, frest, fsize, ftoken, cwd, cwd0>>
    /\ UNCHANGED loopVars
    /\ UNCHANGED launchVars

\* sh_split_line: buffer_size += SH_TOK_BUFFER_SIZE; tokens = realloc(...)
SplitRealloc ==
    /\ fn = "sh_split_line"
    /\ fpc = "realloc"
    /\ fsize' = fsize + SH_TOK_BUFFER_SIZE
    /\ \/ /\ fbuf' = realloc(fbuf)
          /\ fpc' = "strtok"
          /\ UNCHANGED <<pc, stderr, exitCode>>
       \/ /\ AllocationFatal(ALLOCATION_ERROR)
          /\ UNCHANGED fbuf
    /\ UNCHANGED <<stdin, line, args, status, c, invoked>>
    /\ UNCHANGED <<fn, farg, frest, fpos, fstore, ftoken, fret, cwd, cwd0>>
    /\ UNCHANGED launchVars

\* the state of the process when one of the functions is called
InitCall ==
    /\ pc = "call"
    /\ line = Uninit
    /\ args = Uninit
    /\ status = Uninit
    /\ c = "unset"
    /\ stderr = {}
    /\ exitCode = Uninit
    /\ invoked = "none"
    /\ fret = Uninit
    /\ LaunchIdle
    /\ \/ InitCd
       \/ InitRead
       \/ InitSplit

NextCall ==
    \/ CdBody
    \/ CdReturn
    \/ ReadMalloc
    \/ ReadChar
    \/ ReadRealloc
    \/ SplitMalloc
    \/ SplitStrtok
    \/ SplitTest
    \/ SplitRealloc

SpecCall == InitCall /\ [][NextCall]_vars

---------------------------------------------------------------------------
(* The claims about the command loop, checked under Spec.                  *)

\* the first element of the token array of a line
FirstToken(l) == sh_split_line(l)[1]

\* the function the builtin table pairs with a command name, sh_launch when
\* the name is not in the table
Target(name) ==
    IF \E i \in 1..sh_num_builtins : builtin_str[i] = name
    THEN builtin_func[CHOOSE i \in 1..sh_num_builtins : builtin_str[i] = name]
    ELSE "sh_launch"

\* m contains n as a substring
Contains(m, n) ==
    \E i \in 1..(Len(m) - Len(n) + 1) : SubSeq(m, i, i + Len(n) - 1) = n

\* C1: the loop condition tests the signal that the operation dispatched in
\* this iteration produced: a signal was produced, the loop returns exactly
\* when it is 0 ("stop") and prompts again exactly when it is not.
C1_LoopFollowsSignal ==
    [][pc = "test" =>
         /\ status.init
         /\ (pc' = "loop_returned") <=> (status.val = 0)
         /\ (pc' = "prompt") <=> (status.val # 0)]_vars

\* C2: once the line is read, the iteration has tokenized it into args and,
\* when a first token is present, has invoked the builtin paired with it, or
\* sh_launch when it names no builtin, and nothing else.
C2_DispatchOnFirstToken ==
    pc = "free_line" =>
        /\ args.init
        /\ args.val = sh_split_line(line.val)
        /\ FirstToken(line.val) # NULL => invoked = Target(FirstToken(line.val))

\* C3: when end-of-stream is met with no character read, what sh_read_line
\* returns differs from what it returns for an empty line, and the loop then
\* returns without dispatching anything.
C3_EndOfInputStops ==
    /\ [][(pc' = "free_line" /\ c' = EOF /\ line'.val = <<>>) =>
            line'.val # sh_read_line(<<"\n">>, 0).buffer]_vars
    /\ [][(pc = "test" /\ c = EOF /\ line.val = <<>>) =>
            (invoked = "none" /\ pc' = "loop_returned")]_vars

\* C4: sh_exit returns 0 for any arguments, and an iteration whose command
\* name is exit is the last one: the loop returns, with no further prompt.
C4_ExitIsLast ==
    [][(pc = "test" /\ FirstToken(line.val) = Str4("e", "x", "i", "t")) =>
         /\ sh_exit(sh_split_line(line.val)) = 0
         /\ pc' = "loop_returned"]_vars

\* C5: for a line that is empty or holds only delimiters, the token array
\* begins with NULL, the iteration invokes neither a builtin nor sh_launch,
\* and the loop goes on to the next prompt.
C5_BlankLineContinues ==
    [][(pc = "test" /\ c = "\n" /\ line.val \in Seq(SH_TOK_DELIMITER)) =>
         /\ FirstToken(line.val) = NULL
         /\ invoked = "none"
         /\ pc' = "prompt"]_vars

---------------------------------------------------------------------------
(* The claims about sh_launch, checked under SpecLaunch and FairSpecLaunch. *)

\* C6: in the interpreter, sh_launch returns "continue" (a non-zero value)
\* on every path, and the interpreter process has not exited.
C6_LaunchContinues ==
    /\ lpc = "returned" => (lret.init /\ lret.val # 0)
    /\ ~exitCode.init

C6_ExecFailedAndReturned ==
    /\ lpc = "returned"
    /\ lret = Val(1)
    /\ cerrno = "ENOENT"
    /\ child = "exited"

\* C7: after a successful fork the parent leaves the wait loop only when a
\* waitpid on the child's pid has reported it exited or killed by a signal.
C7_ReturnAfterReport ==
    (lpc \in {"return", "returned"} /\ pid > 0) =>
        /\ wpid = pid
        /\ lstatus.init
        /\ (WIFEXITED(lstatus.val) \/ WIFSIGNALED(lstatus.val))

\* C8: the child never returns from sh_launch; when execvp failed it never
\* runs a program, its error message is on the error stream, and if it
\* exits, it exits with a non-zero status.
C8_ChildNeverReturns ==
    /\ child # "returned"
    /\ cerrno # "none" =>
         /\ child \in {"exec_failed", "exited", "signaled"}
         /\ perror(cerrno) \in stderr
         /\ child = "exited" => (cexit.init /\ cexit.val # 0)

C8_ExecFailedChildExited ==
    /\ cerrno # "none"
    /\ child = "exited"
    /\ cexit = Val(EXIT_FAILURE)

\* C9: once the launched process has terminated, by exit or by signal,
\* sh_launch eventually returns to the interpreter.
C9_LaunchReturns == ChildTerminated ~> (lpc = "returned")

\* C10: when the program named does not exist, a message on the error
\* stream contains the program's name.
C10_MessageNamesProgram ==
    cerrno = "ENOENT" => \E m \in stderr : Contains(m, largs[1])

---------------------------------------------------------------------------
(* The claims about the functions called on their own, checked under       *)
(* SpecCall.                                                               *)

\* C11: when sh_cd has returned it has returned 1 and the interpreter has
\* not exited; with no directory argument, and with one that names no
\* directory that can be entered, the working directory is the one at the
\* call and the error stream holds a message; with one naming a directory
\* that exists, the working directory is that directory.
C11_CdEffect ==
    (fn = "sh_cd" /\ fpc = "returned") =>
        /\ fret = Val(1)
        /\ ~exitCode.init
        /\ IF farg[2] = NULL
           THEN cwd = cwd0 /\ EXPECTED_ARGUMENT \in stderr
           ELSE IF Resolve(cwd0, farg[2]) \in Dirs
           THEN cwd = Resolve(cwd0, farg[2])
           ELSE cwd = cwd0 /\ stderr # {}

C11_DirectoryChanged ==
    /\ fn = "sh_cd"
    /\ fpc = "returned"
    /\ cwd # cwd0
    /\ cwd = <<"/", "a", "/", "b">>

\* the characters of an input before its first newline, all of them when it
\* has none
LineOf(in) ==
    IF \E i \in 1..Len(in) : in[i] = "\n"
    THEN SubSeq(in, 1, (CHOOSE i \in 1..Len(in) :
                           in[i] = "\n" /\ \A j \in 1..(i - 1) : in[j] # "\n") - 1)
    ELSE in

\* C14: what sh_read_line returns is the characters of the input before the
\* newline (or the end of the stream), in order, then the end marker, and
\* nothing else, however many times the buffer grew.
C14_WholeLine ==
    (fn = "sh_read_line" /\ fpc = "returned") =>
        /\ fret.init
        /\ fret.val = LineOf(farg) \o <<NUL>>

C14_LongLineReturned ==
    /\ fn = "sh_read_line"
    /\ fpc = "returned"
    /\ fsize = 3 * SH_READ_LINE_BUFFER_SIZE
    /\ Len(fret.val) = 2 * SH_READ_LINE_BUFFER_SIZE + 2

\* C20: every store into the line buffer, the end marker's included, is at
\* an index below the capacity, and the capacity never decreases.
C20_StoresWithinCapacity ==
    /\ [](fn = "sh_read_line" => (fstore < fsize /\ Len(fbuf) <= fsize))
    /\ [][fn = "sh_read_line" => fsize' >= fsize]_vars

C20_EndMarkerInLastCell ==
    /\ fn = "sh_read_line"
    /\ fpc = "returned"
    /\ fstore = SH_READ_LINE_BUFFER_SIZE - 1
    /\ fsize = SH_READ_LINE_BUFFER_SIZE

\* the delimiters: space, tab, carriage return, newline and bell
Delimiters == {" ", "\t", "\r", "\n", BEL}

\* where the maximal runs of non-delimiter characters of l begin
RunStarts(l) ==
    {i \in 1..Len(l) : l[i] \notin Delimiters /\ (i = 1 \/ l[i - 1] \in Delimiters)}

\* where the run that begins at i ends
RunEnd(l, i) ==
    CHOOSE j \in i..Len(l) :
        /\ \A k \in i..j : l[k] \notin Delimiters
        /\ j = Len(l) \/ l[j + 1] \in Delimiters

\* the maximal runs of non-delimiter characters of l, in order of occurrence
Runs(l) ==
    LET starts == RunStarts(l)
        nth(k) == CHOOSE i \in starts : Cardinality({j \in starts : j < i}) = k - 1
    IN  [k \in 1..Cardinality(starts) |-> SubSeq(l, nth(k), RunEnd(l, nth(k)))]

RECURSIVE Join(_)
\* the tokens joined with single spaces
Join(toks) ==
    IF toks = <<>> THEN <<>>
    ELSE IF Len(toks) = 1 THEN toks[1]
    ELSE LET h == Len(toks) \div 2
         IN  Join(SubSeq(toks, 1, h)) \o <<" ">> \o Join(SubSeq(toks, h + 1, Len(toks)))

\* a token array without its terminator
Tokens(array) == SubSeq(array, 1, Len(array) - 1)

\* C12: sh_split_line returns, in order, exactly the maximal runs of
\* non-delimiter characters of the line, then the terminator: no token is
\* empty and none contains a delimiter.
C12_TokensAreRuns ==
    (fn = "sh_split_line" /\ fpc = "returned") =>
        /\ fret.val = Runs(farg) \o <<NULL>>
        /\ \A i \in 1..(Len(fret.val) - 1) :
             /\ fret.val[i] # <<>>
             /\ fret.val[i] # NULL
             /\ \A k \in 1..Len(fret.val[i]) : fret.val[i][k] \notin Delimiters

C12_RunOfDelimitersBetweenTokens ==
    /\ fn = "sh_split_line"
    /\ fpc = "returned"
    /\ farg = <<"a", " ", "\t", "b">>
    /\ fret.val = << <<"a">>, <<"b">>, NULL >>

\* C13: the tokens joined with single spaces are the runs of the line joined
\* with single spaces; tokenizing that line again gives the same token
\* array, and joining again gives the same line.
C13_JoinSplitRoundTrip ==
    (fn = "sh_split_line" /\ fpc = "returned") =>
        LET joined == Join(Tokens(fret.val))
        IN  /\ joined = Join(Runs(farg))
            /\ sh_split_line(joined) = fret.val
            /\ Join(Tokens(sh_split_line(joined))) = joined

C13_WhitespaceCollapsed ==
    /\ fn = "sh_split_line"
    /\ fpc = "returned"
    /\ farg = <<"a", BEL, BEL, "b">>
    /\ Join(Tokens(fret.val)) = <<"a", " ", "b">>

\* C19: every store into the token array, the NULL's included, is at an
\* index below the capacity.
C19_TokenStoresWithinCapacity ==
    fn = "sh_split_line" => (fstore < fsize /\ Len(fbuf) <= fsize)

C19_CapacityManyTokens ==
    /\ fn = "sh_split_line"
    /\ fpc = "returned"
    /\ fpos = SH_TOK_BUFFER_SIZE
    /\ fstore = SH_TOK_BUFFER_SIZE
    /\ fsize = 2 * SH_TOK_BUFFER_SIZE

\* C16: once an allocation error message is on the error stream, the
\* process has exited with a failure status from inside the function: the
\* function returned nothing and runs no further step.
C16_AllocationFailureIsFatal ==
    ({ALLOCATION_ERROR, REALLOCATION_ERROR} \cap stderr # {}) =>
        /\ fpc = "exited"
        /\ pc = "exited"
        /\ exitCode = Val(EXIT_FAILURE)
        /\ ~fret.init
        /\ ~ENABLED NextCall

C16_GrowthFailed ==
    /\ fn = "sh_split_line"
    /\ fpc = "exited"
    /\ fpos = SH_TOK_BUFFER_SIZE
    /\ ALLOCATION_ERROR \in stderr

---------------------------------------------------------------------------
(* Further claims about the interpreter process, checked under Spec and    *)
(* SpecLaunch.                                                             *)

C17_InterpreterWaitsForChild ==
    /\ ChildAlive => (lpc \in {"wait", "wait_test"} /\ ~lret.init)
    /\ child # "none" => pid = 1

C17_StoppedChildStillWaitedFor ==
    /\ ChildAlive
    /\ cstopped
    /\ lpc = "wait"
    /\ lstatus = Val(StoppedStatus)

\* C18: what an iteration frees is what it acquired: the line it frees was
\* read in this iteration and is still allocated, the token array it frees
\* was assigned in this iteration, and at the loop test the line is released.
C18_ReleasesWhatItAcquired ==
    /\ pc = "free_line" => (line.init /\ line.live)
    /\ pc = "free_args" => args.init
    /\ pc = "test" => (line.init /\ ~line.live)

====
